---- MODULE Spec2Model ----
(***************************************************************************)
(* Model of src/scripts.js: the TranslationManager of the Keewepa landing  *)
(* page.  The page runs on one event loop: every handler below runs to     *)
(* completion, and the only suspension points are the two awaits of        *)
(* loadLanguage (the fetch, then the parse of the response body).  The     *)
(* continuation that follows a settled await runs in the microtasks of     *)
(* the same task, so one action covers loadLanguage's remaining lines and  *)
(* the remaining lines of the caller (init or changeLanguage).             *)
(***************************************************************************)
EXTENDS Integers, Sequences, FiniteSets, TLC

(***************************************************************************)
(* Bounds                                                                  *)
(***************************************************************************)
\* largest number of changeLanguage calls suspended on a load at one time
MaxPending == 2

\* largest number of testimonial slides in the page
MaxSlides == 3

\* largest number of gallery timeouts pending at one time
MaxTimers == 3

\* largest time, in ms, between the two clock reads of one countdown update
MaxSkewMs == 1

(***************************************************************************)
(* Language codes                                                          *)
(***************************************************************************)
Langs == {"ar", "fr", "en"}

DefaultLang == "ar"

(***************************************************************************)
(* Translation resources: a flat mapping key -> string.  A key that the    *)
(* file does not hold reads as Missing (JavaScript's undefined).           *)
(***************************************************************************)
Missing == "<undefined>"

Keys == {"home", "hero_title", "cta_placeholder"}

Vals == {"", "x", "y"}

Resources == [Keys -> Vals \cup {Missing}]

MkRes(home, hero, cta) ==
    [k \in Keys |-> IF k = "home" THEN home
                    ELSE IF k = "hero_title" THEN hero ELSE cta]

\* the bodies that the server may return for lang/<lang>.json
FileChoices(lang) ==
    IF lang = "ar" THEN {MkRes("x", "x", "x"), MkRes(Missing, Missing, Missing)}
    ELSE IF lang = "fr" THEN {MkRes("y", "y", "y"), MkRes("", Missing, "y")}
    ELSE {MkRes("y", "", Missing)}

(***************************************************************************)
(* Region bindings of updateUI, in call order: one binding of each update  *)
(* mode.  The other bindings of updateUI have the shape of the first       *)
(* (default mode 'text') or of the second ('html').                        *)
(***************************************************************************)
Bindings ==
    << [sel |-> "[data-key=home]",            key |-> "home",            type |-> "text"],
       [sel |-> "[data-key=hero_title]",      key |-> "hero_title",      type |-> "html"],
       [sel |-> "[data-key=cta_placeholder]", key |-> "cta_placeholder", type |-> "placeholder"] >>

Selectors == {Bindings[i].sel : i \in 1..Len(Bindings)}

(***************************************************************************)
(* A DOM element: its body (kind says whether the body was parsed as       *)
(* markup, through innerHTML or the static page, or set as literal text    *)
(* through textContent) and its placeholder attribute.                     *)
(***************************************************************************)
OrigElement == [kind |-> "markup", body |-> "orig", placeholder |-> "orig"]

ElementStates ==
    [kind : {"markup", "text"}, body : {"orig", "x", "y"}, placeholder : {"orig", "x", "y"}]

VARIABLES
    currentLang,    \* this.currentLang
    translations,   \* this.translations: function from the loaded codes to resources
    pending,        \* calls suspended in loadLanguage, in the order they were issued
    listeners,      \* TRUE once init has run setupEventListeners
    exists,         \* the selectors of updateUI for which the document holds an element
    regions,        \* the state of the (possible) element of each selector
    activeOpt,      \* the .lang-option elements that carry the class 'active'
    langText,       \* textContent of .current-lang
    dir,            \* body's dir attribute ("none": not set)
    ltrClass,       \* body carries the class 'ltr'
    dropdownShow,   \* .lang-dropdown carries the class 'show'
    last,           \* the event handled by the latest step
    langOptions,    \* the codes for which the page holds a .lang-option ({}: no language selector)
    slideCount,     \* slides.length
    currentSlide,   \* currentSlide of initTestimonialSlider
    activeSlides,   \* the slides that carry the class 'active'
    sliderTimer,    \* the interval of line 161 is running
    sStart,         \* currentSlide before the slider events of sOps
    sOps,           \* the latest slider events, at most MaxSlides of them
    galleryItems,   \* the .gallery-item elements of the page
    itemStyle,      \* style.display, style.opacity and style.transform of each item
    filterActive,   \* the .control-btn elements that carry the class 'active'
    timers,         \* the pending timeouts of filterGallery, in the order they were set
    lastFilter,     \* the category of the latest filterGallery call ("none": no call yet)
    overlapped,     \* the latest filterGallery call was made while timeouts were pending
    countdownOn,    \* the interval of line 406 is running
    cdExists,       \* the countdown elements the page holds
    cdText          \* innerText of the countdown elements

localizer == << currentLang, translations, pending, listeners, exists, regions,
                activeOpt, langText, dir, ltrClass, dropdownShow, langOptions >>

slider == << slideCount, currentSlide, activeSlides, sliderTimer, sStart, sOps >>

gallery == << galleryItems, itemStyle, filterActive, timers, lastFilter, overlapped >>

countdown == << countdownOn, cdExists, cdText >>

widgets == << langOptions, slider, gallery, countdown >>

vars == << localizer, last, slider, gallery, countdown >>

chrome == << activeOpt, langText, dir, ltrClass, dropdownShow >>

NoTranslations == [l \in {} |-> MkRes(Missing, Missing, Missing)]

Put(trans, lang, res) ==
    [l \in (DOMAIN trans) \cup {lang} |-> IF l = lang THEN res ELSE trans[l]]

Event(op, lang, ok) == [op |-> op, lang |-> lang, ok |-> ok]

(***************************************************************************)
(* updateElement(selector, content, type)                                  *)
(***************************************************************************)
Truthy(content) == content # Missing /\ content # ""

\* variant: the emptiness test on content is dropped
ShouldUpdate_noContentTest(elementExists, content) == elementExists

ShouldUpdate(elementExists, content) == elementExists /\ Truthy(content)

\* variant: the update mode is ignored, every write goes through textContent
WriteElement_textOnly(el, content, type) == [el EXCEPT !.kind = "text", !.body = content]

\* variant: the content is appended to what the element holds
WriteElement_append(el, content, type) ==
    IF type = "html" THEN [el EXCEPT !.kind = "markup", !.body = @ \o content]
    ELSE IF type = "placeholder" THEN [el EXCEPT !.placeholder = @ \o content]
    ELSE [el EXCEPT !.kind = "text", !.body = @ \o content]

WriteElement(el, content, type) ==
    IF type = "html" THEN [el EXCEPT !.kind = "markup", !.body = content]
    ELSE IF type = "placeholder" THEN [el EXCEPT !.placeholder = content]
    ELSE [el EXCEPT !.kind = "text", !.body = content]

UpdateElement(regs, ex, selector, content, type) ==
    IF ShouldUpdate(selector \in ex, content)
    THEN [regs EXCEPT ![selector] = WriteElement(@, content, type)]
    ELSE regs

(***************************************************************************)
(* updateUI()                                                              *)
(***************************************************************************)
\* const t = this.translations[this.currentLang]: <<>> when undefined
\* variant: falls back to another loaded language when the current one is not loaded
ResourceFor_fallback(trans, cur) ==
    IF cur \in DOMAIN trans THEN << trans[cur] >>
    ELSE IF DOMAIN trans # {} THEN << trans[CHOOSE l \in DOMAIN trans : TRUE] >>
    ELSE << >>

ResourceFor(trans, cur) == IF cur \in DOMAIN trans THEN << trans[cur] >> ELSE << >>

RECURSIVE ApplyBindings(_, _, _, _)
ApplyBindings(regs, ex, t, i) ==
    IF i > Len(Bindings) THEN regs
    ELSE ApplyBindings(UpdateElement(regs, ex, Bindings[i].sel, t[Bindings[i].key], Bindings[i].type),
                       ex, t, i + 1)

UpdateUI(regs, ex, trans, cur) ==
    LET t == ResourceFor(trans, cur) IN
    IF t = << >> THEN regs ELSE ApplyBindings(regs, ex, t[1], 1)

(***************************************************************************)
(* changeLanguage(lang)                                                    *)
(***************************************************************************)
\* variant: the test against the current language is dropped
NeedsChange_always(lang, cur) == TRUE

NeedsChange(lang, cur) == lang # cur

\* variant: the cache is not consulted
IsLoaded_never(trans, lang) == FALSE

IsLoaded(trans, lang) == lang \in DOMAIN trans

LangLabel(lang, old) ==
    IF lang = "ar" THEN "al-arabiya"
    ELSE IF lang = "fr" THEN "Francais"
    ELSE IF lang = "en" THEN "English" ELSE old

\* variant: only 'en' is taken to be left-to-right
DirOf_onlyEn(lang) == IF lang = "en" THEN "ltr" ELSE "rtl"

DirOf(lang) == IF lang = "ar" THEN "rtl" ELSE "ltr"

\* variant: the class 'active' is not removed from the other options
ActiveAfter_noClear(opts, lang) == opts \cup {lang}

\* variant: the class 'active' is removed and not set again
ActiveAfter_none(opts, lang) == {}

\* lines 190-196: the options that carry 'active' after the switch to lang
ActiveAfter(opts, lang) == {lang}

\* variant: the tail is skipped when the resource of lang is not there
ChangeTail_onlyIfLoaded(lang, trans) ==
    IF lang \in DOMAIN trans
    THEN /\ currentLang' = lang
         /\ regions' = UpdateUI(regions, exists, trans, lang)
         /\ activeOpt' = ActiveAfter(activeOpt, lang)
         /\ langText' = LangLabel(lang, langText)
         /\ dir' = DirOf(lang)
         /\ ltrClass' = (DirOf(lang) = "ltr")
         /\ dropdownShow' = FALSE
    ELSE UNCHANGED << currentLang, regions, activeOpt, langText, dir, ltrClass, dropdownShow >>

\* lines 186-219: what changeLanguage does once the resource is there (or the load gave up)
ChangeTail(lang, trans) ==
    /\ currentLang' = lang
    /\ regions' = UpdateUI(regions, exists, trans, lang)
    /\ activeOpt' = ActiveAfter(activeOpt, lang)
    /\ langText' = LangLabel(lang, langText)
    /\ dir' = DirOf(lang)
    /\ ltrClass' = (DirOf(lang) = "ltr")
    /\ dropdownShow' = FALSE

(***************************************************************************)
(* initTestimonialSlider()                                                 *)
(***************************************************************************)
\* variant: the index stops at the last slide
NextIndex_clamp(cur, n) == IF cur + 1 < n THEN cur + 1 ELSE cur

\* lines 147 and 162
NextIndex(cur, n) == (cur + 1) % n

\* line 155
PrevIndex(cur, n) == (cur - 1 + n) % n

\* variant: the class 'active' is not removed from the other slides
ActiveSlidesAfter_noClear(act, index) == act \cup {index}

\* showSlide(index), lines 139-140: the slides that carry 'active' after it
ActiveSlidesAfter(act, index) == {index}

\* variant: a manual move cancels the interval
TimerAfterManual_cancel(running) == FALSE

\* lines 146-149 and 154-157: the click handlers do not touch the interval
TimerAfterManual(running) == running

\* the latest slider events and the slide they started from: op is added to
\* the events recorded, or starts a new record once MaxSlides are recorded
StartAfter(start, ops, cur) == IF Len(ops) < MaxSlides THEN start ELSE cur

OpsAfter(ops, op) == IF Len(ops) < MaxSlides THEN Append(ops, op) ELSE << op >>

(***************************************************************************)
(* filterGallery(category)                                                 *)
(***************************************************************************)
\* the gallery items, in document order, and their data-category
ItemSeq == << "g1", "g2" >>

Items == {ItemSeq[i] : i \in 1..Len(ItemSeq)}

ItemCategory(item) == IF item = "g1" THEN "men" ELSE "women"

\* the data-filter of the .control-btn elements (line 412)
Filters == {"all", "men", "women", "salons"}

\* line 423
ShowDelay == 10

\* line 429
HideDelay == 300

\* the style that the page's stylesheet gives an item: shown
OrigStyle == [display |-> "", opacity |-> "", transform |-> ""]

\* variant: the wildcard category is not recognised
Matches_noWildcard(category, itemCategory) == itemCategory = category

\* line 418
Matches(category, itemCategory) == category = "all" \/ itemCategory = category

Timeout(item, kind, delay) == [item |-> item, kind |-> kind, left |-> delay]

\* lines 417-431, from the i-th item on: the styles and the timeouts after the loop
RECURSIVE FilterItems(_, _, _, _, _)
FilterItems(styles, tms, present, category, i) ==
    IF i > Len(ItemSeq) THEN << styles, tms >>
    ELSE LET item == ItemSeq[i] IN
         IF item \notin present THEN FilterItems(styles, tms, present, category, i + 1)
         ELSE IF Matches(category, ItemCategory(item))
         THEN FilterItems([styles EXCEPT ![item].display = "block"],
                          Append(tms, Timeout(item, "show", ShowDelay)),
                          present, category, i + 1)
         ELSE FilterItems([styles EXCEPT ![item].opacity = "0", ![item].transform = "scale(0.95)"],
                          Append(tms, Timeout(item, "hide", HideDelay)),
                          present, category, i + 1)

\* the callbacks of lines 420-423 and 427-429
RunTimeout(styles, tm) ==
    IF tm.kind = "show"
    THEN [styles EXCEPT ![tm.item].opacity = "1", ![tm.item].transform = "scale(1)"]
    ELSE [styles EXCEPT ![tm.item].display = "none"]

(***************************************************************************)
(* startCountdown()                                                        *)
(***************************************************************************)
CdIds == {"days", "hours", "minutes", "seconds"}

\* line 384
OffsetDays == 30

\* lines 389-392
MsPerSecond == 1000

SecondsPerMinute == 60

MinutesPerHour == 60

HoursPerDay == 24

SecondsPerHour == SecondsPerMinute * MinutesPerHour

SecondsPerDay == SecondsPerHour * HoursPerDay

\* setDate works on local time: a daylight-saving change within the 30 days
\* makes them an hour shorter or longer (in seconds)
DstShifts == {0 - SecondsPerHour, 0, SecondsPerHour}

\* the time, in seconds, between the start of the page and an update
ElapsedChoices == {0, 1, SecondsPerDay, 2 * SecondsPerDay}

\* variant: the launch date is fixed when the page starts
CountdownDiff_fixedLaunch(elapsed, dst, skew) ==
    OffsetDays * SecondsPerDay + dst - elapsed - ((skew + MsPerSecond - 1) \div MsPerSecond)

\* lines 383-387: the whole seconds of diff = launchDate - now, where launchDate
\* is the first clock read plus 30 days and now is a second clock read, skew ms
\* later.  (diff is only used through floor(diff / 1000).)
CountdownDiff(elapsed, dst, skew) ==
    OffsetDays * SecondsPerDay + dst - ((skew + MsPerSecond - 1) \div MsPerSecond)

\* lines 389-392
CdField(id, diff) ==
    IF id = "days" THEN diff \div SecondsPerDay
    ELSE IF id = "hours" THEN (diff % SecondsPerDay) \div SecondsPerHour
    ELSE IF id = "minutes" THEN (diff % SecondsPerHour) \div SecondsPerMinute
    ELSE diff % SecondsPerMinute

Digit(d) == << "0", "1", "2", "3", "4", "5", "6", "7", "8", "9" >>[d + 1]

\* n.toString(), n a natural number
RECURSIVE NumberToString(_)
NumberToString(n) == IF n < 10 THEN Digit(n) ELSE NumberToString(n \div 10) \o Digit(n % 10)

\* n.toString().padStart(2, '0')
PadStart2(n) == IF n < 10 THEN "0" \o NumberToString(n) ELSE NumberToString(n)

\* lines 394-402
UpdateCountdown(text, ex, diff) ==
    [id \in CdIds |-> IF id \in ex THEN PadStart2(CdField(id, diff)) ELSE text[id]]

\* lines 20-22: what init does once loadLanguage has returned
InitTail(trans, cur) ==
    /\ listeners' = TRUE
    /\ currentSlide' = 0
    /\ sliderTimer' = TRUE
    /\ regions' = UpdateUI(regions, exists, trans, cur)
    /\ countdownOn' = TRUE
    /\ \E dst \in DstShifts, skew \in 0..MaxSkewMs :
          cdText' = UpdateCountdown(cdText, cdExists, CountdownDiff(0, dst, skew))
    /\ UNCHANGED << chrome, langOptions, slideCount, activeSlides, sStart, sOps, gallery, cdExists >>

Remove(seq, i) == [j \in 1..(Len(seq) - 1) |-> IF j < i THEN seq[j] ELSE seq[j + 1]]

\* a call suspended in loadLanguage; nth: how many suspended calls were parsing
\* their body when the response of this one arrived
Call(kind, lang) ==
    [kind |-> kind, lang |-> lang, stage |-> "fetch", status |-> "none", nth |-> 0]

Parsing(calls) == {j \in 1..Len(calls) : calls[j].stage = "json"}

(***************************************************************************)
(* Initial state: the constructor has run and init is suspended on the     *)
(* fetch of the default language.  The static page is not part of the      *)
(* script: which bound elements it holds, and whether it marks 'ar' and    *)
(* right-to-left from the start, is left open.                             *)
(***************************************************************************)
\* variant: init does not wait for the load before it sets the page up
SetUpAtStart_noAwait == TRUE

\* line 19: the listeners and the two intervals are not set up before the load returns
SetUpAtStart == FALSE

\* what does not depend on the page
Boot ==
    /\ currentLang = DefaultLang
    /\ translations = NoTranslations
    /\ pending = << Call("init", DefaultLang) >>
    /\ listeners = SetUpAtStart
    /\ regions = [s \in Selectors |-> OrigElement]
    /\ ltrClass = FALSE
    /\ dropdownShow = FALSE
    /\ last = Event("start", DefaultLang, TRUE)
    /\ currentSlide = 0
    /\ sliderTimer = SetUpAtStart
    /\ sStart = 0
    /\ sOps = << >>
    /\ itemStyle = [i \in Items |-> OrigStyle]
    /\ timers = << >>
    /\ lastFilter = "none"
    /\ overlapped = FALSE
    /\ countdownOn = SetUpAtStart
    /\ cdText = [id \in CdIds |-> "orig"]

\* pages without a language selector, a slider, a gallery, a countdown
NoSelector ==
    /\ langOptions = {}
    /\ exists = {}
    /\ activeOpt = {}
    /\ dir = "rtl"
    /\ langText = "orig"

NoSlider == slideCount = 0 /\ activeSlides = {}

NoGallery == galleryItems = {} /\ filterActive = {}

NoCountdown == cdExists = {}

\* the page of the localizer: the language selector and the regions
Init ==
    /\ Boot
    /\ langOptions = Langs
    /\ exists \in {Selectors, Selectors \ {"[data-key=hero_title]"}}
    /\ \/ activeOpt = {"ar"} /\ dir = "rtl" /\ langText = "al-arabiya"
       \/ activeOpt = {} /\ dir = "none" /\ langText = "orig"
    /\ NoSlider
    /\ NoGallery
    /\ NoCountdown

(***************************************************************************)
(* Handlers                                                                *)
(***************************************************************************)
\* click on .lang-toggle (lines 52-55)
LangToggleClick ==
    /\ listeners
    /\ langOptions # {}
    /\ dropdownShow' = ~dropdownShow
    /\ last' = Event("toggle", currentLang, TRUE)
    /\ UNCHANGED << currentLang, translations, pending, listeners, exists, regions,
                    activeOpt, langText, dir, ltrClass, widgets >>

\* click outside .language-selector (lines 59-64)
OutsideClick ==
    /\ listeners
    /\ langOptions # {}
    /\ dropdownShow' = FALSE
    /\ last' = Event("outside", currentLang, TRUE)
    /\ UNCHANGED << currentLang, translations, pending, listeners, exists, regions,
                    activeOpt, langText, dir, ltrClass, widgets >>

\* click on a .lang-option (lines 68-72) and changeLanguage up to its first await
LangOptionClick(lang) ==
    /\ listeners
    /\ lang \in langOptions
    /\ IF ~NeedsChange(lang, currentLang)
       THEN /\ last' = Event("click", lang, TRUE)
            /\ UNCHANGED << currentLang, translations, pending, regions, chrome >>
       ELSE IF ~IsLoaded(translations, lang)
       THEN /\ Len(pending) < MaxPending
            /\ pending' = Append(pending, Call("change", lang))
            /\ last' = Event("click", lang, TRUE)
            /\ UNCHANGED << currentLang, translations, regions, chrome >>
       ELSE /\ ChangeTail(lang, translations)
            /\ last' = Event("click", lang, TRUE)
            /\ UNCHANGED << translations, pending >>
    /\ UNCHANGED << listeners, exists, widgets >>

\* variant: the status of the response is not tested
ResponseOk_anyStatus(outcome) == TRUE

ResponseOk(outcome) == outcome = "ok"

\* the continuation of a call whose load gave up (lines 38-40, then the caller's tail)
LoadFailed(i) ==
    LET c == pending[i] IN
    /\ pending' = Remove(pending, i)
    /\ UNCHANGED << translations, exists >>
    /\ IF c.kind = "init"
       THEN /\ InitTail(translations, currentLang)
            /\ UNCHANGED currentLang
            /\ last' = Event("initDone", c.lang, FALSE)
       ELSE /\ ChangeTail(c.lang, translations)
            /\ UNCHANGED << listeners, widgets >>
            /\ last' = Event("changeDone", c.lang, FALSE)

\* the fetch of call i settles (line 32): a response with a success status,
\* a response with another status, or a transport error
FetchSettle(i, outcome) ==
    /\ i \in 1..Len(pending)
    /\ pending[i].stage = "fetch"
    /\ IF outcome = "network"
       THEN LoadFailed(i)
       ELSE IF ResponseOk(outcome)
       THEN /\ pending' = [pending EXCEPT ![i].stage = "json", ![i].status = outcome,
                                            ![i].nth = Cardinality(Parsing(pending))]
            /\ last' = Event("response", pending[i].lang, TRUE)
            /\ UNCHANGED << currentLang, translations, listeners, exists, regions, chrome, widgets >>
       ELSE LoadFailed(i)

\* a response body: text that parses to a resource, or text that is not JSON
Bodies == {<< r >> : r \in UNION {FileChoices(l) : l \in Langs}} \cup {<< >>}

BodyRes(body) == body[1]

\* the body of call i's response is parsed (line 36), or fails to parse
JsonSettle(i, body) ==
    /\ i \in 1..Len(pending)
    /\ pending[i].stage = "json"
    /\ IF body = << >>
       THEN LoadFailed(i)
       ELSE LET c == pending[i]
                trans == Put(translations, c.lang, BodyRes(body)) IN
            /\ BodyRes(body) \in FileChoices(c.lang)
            /\ translations' = trans
            /\ pending' = Remove(pending, i)
            /\ UNCHANGED exists
            /\ IF c.kind = "init"
               THEN /\ currentLang' = c.lang
                    /\ InitTail(trans, c.lang)
                    /\ last' = Event("initDone", c.lang, TRUE)
               ELSE /\ ChangeTail(c.lang, trans)
                    /\ UNCHANGED << listeners, widgets >>
                    /\ last' = Event("changeDone", c.lang, TRUE)

Next ==
    \/ LangToggleClick
    \/ OutsideClick
    \/ \E lang \in Langs : LangOptionClick(lang)
    \/ \E i \in 1..Len(pending), outcome \in {"ok", "http", "network"} : FetchSettle(i, outcome)
    \/ \E i \in 1..Len(pending), body \in Bodies : JsonSettle(i, body)

Spec == Init /\ [][Next]_vars

(***************************************************************************)
(* The handlers of the slider, the gallery and the countdown               *)
(***************************************************************************)
\* showSlide(index) (lines 138-142), recorded as the slider event op
SlideTo(index, op) ==
    /\ activeSlides' = ActiveSlidesAfter(activeSlides, index)
    /\ currentSlide' = index
    /\ sStart' = StartAfter(sStart, sOps, currentSlide)
    /\ sOps' = OpsAfter(sOps, op)

\* click on .next-btn (lines 146-149); the buttons come with the slides
NextClick ==
    /\ listeners
    /\ slideCount > 0
    /\ SlideTo(NextIndex(currentSlide, slideCount), "next")
    /\ sliderTimer' = TimerAfterManual(sliderTimer)
    /\ last' = Event("next", currentLang, TRUE)
    /\ UNCHANGED << localizer, slideCount, gallery, countdown >>

\* click on .prev-btn (lines 154-157)
PrevClick ==
    /\ listeners
    /\ slideCount > 0
    /\ SlideTo(PrevIndex(currentSlide, slideCount), "prev")
    /\ sliderTimer' = TimerAfterManual(sliderTimer)
    /\ last' = Event("prev", currentLang, TRUE)
    /\ UNCHANGED << localizer, slideCount, gallery, countdown >>

\* the interval of line 161 fires (lines 162-163).  Without slides the index
\* is NaN and line 140 throws before anything is written.
SliderTick ==
    /\ sliderTimer
    /\ IF slideCount = 0
       THEN UNCHANGED << activeSlides, currentSlide, sStart, sOps >>
       ELSE SlideTo(NextIndex(currentSlide, slideCount), "tick")
    /\ last' = Event("tick", currentLang, TRUE)
    /\ UNCHANGED << localizer, slideCount, sliderTimer, gallery, countdown >>

\* click on a .control-btn[data-filter] (lines 105-115); the buttons come
\* with the gallery
FilterClick(filter) ==
    /\ listeners
    /\ galleryItems # {}
    /\ Len(timers) + Cardinality(galleryItems) <= MaxTimers
    /\ filterActive' = {filter}
    /\ LET r == FilterItems(itemStyle, timers, galleryItems, filter, 1) IN
          /\ itemStyle' = r[1]
          /\ timers' = r[2]
    /\ lastFilter' = filter
    /\ overlapped' = (timers # << >>)
    /\ last' = Event("filter", currentLang, TRUE)
    /\ UNCHANGED << localizer, slider, galleryItems, countdown >>

MinLeft(tms) == CHOOSE m \in {tms[i].left : i \in 1..Len(tms)} :
                    \A i \in 1..Len(tms) : m <= tms[i].left

\* the times, in ms, that may pass between two events
Gaps == {100}

\* d ms pass, no timeout being due before they have passed
TimePasses(d) ==
    /\ timers # << >>
    /\ d > 0
    /\ d <= MinLeft(timers)
    /\ timers' = [i \in 1..Len(timers) |-> [timers[i] EXCEPT !.left = @ - d]]
    /\ UNCHANGED << localizer, last, slider, galleryItems, itemStyle, filterActive,
                    lastFilter, overlapped, countdown >>

\* the first of the timeouts that are due runs (lines 420-423 or 427-429)
TimerFire ==
    /\ \E i \in 1..Len(timers) :
          /\ timers[i].left = 0
          /\ \A j \in 1..(i - 1) : timers[j].left # 0
          /\ itemStyle' = RunTimeout(itemStyle, timers[i])
          /\ timers' = Remove(timers, i)
    /\ last' = Event("timeout", currentLang, TRUE)
    /\ UNCHANGED << localizer, slider, galleryItems, filterActive, lastFilter, overlapped,
                    countdown >>

\* updateCountdown (lines 381-403) run by the interval of line 406
CountdownTick(elapsed, dst, skew) ==
    /\ countdownOn
    /\ cdText' = UpdateCountdown(cdText, cdExists, CountdownDiff(elapsed, dst, skew))
    /\ last' = Event("countdown", currentLang, TRUE)
    /\ UNCHANGED << localizer, slider, gallery, countdownOn, cdExists >>

(***************************************************************************)
(* The whole page.  The four parts of the page share no state; the pages   *)
(* considered hold one of them each.                                       *)
(***************************************************************************)
InitPage ==
    /\ Boot
    /\ \/ /\ langOptions = Langs
          /\ exists = Selectors
          /\ activeOpt = {"ar"} /\ dir = "rtl" /\ langText = "al-arabiya"
          /\ NoSlider /\ NoGallery /\ NoCountdown
       \/ /\ NoSelector
          /\ slideCount \in 1..MaxSlides
          /\ activeSlides \in SUBSET (0..(slideCount - 1))
          /\ NoGallery /\ NoCountdown
       \/ /\ NoSelector /\ NoSlider
          /\ galleryItems = Items
          /\ filterActive = {"all"}
          /\ NoCountdown
       \/ /\ NoSelector /\ NoSlider /\ NoGallery
          /\ cdExists \in (SUBSET CdIds) \ {{}}

NextPage ==
    \/ Next
    \/ NextClick
    \/ PrevClick
    \/ SliderTick
    \/ \E filter \in Filters : FilterClick(filter)
    \/ \E d \in Gaps \cup {timers[i].left : i \in 1..Len(timers)} : TimePasses(d)
    \/ TimerFire
    \/ \E elapsed \in ElapsedChoices, dst \in DstShifts, skew \in 0..MaxSkewMs :
          CountdownTick(elapsed, dst, skew)

SpecPage == InitPage /\ [][NextPage]_vars

TypeOK ==
    /\ currentLang \in Langs
    /\ DOMAIN translations \subseteq Langs
    /\ \A l \in DOMAIN translations : translations[l] \in Resources
    /\ Len(pending) <= MaxPending
    /\ listeners \in BOOLEAN
    /\ \A s \in Selectors : regions[s] \in ElementStates
    /\ activeOpt \subseteq Langs
    /\ dir \in {"none", "rtl", "ltr"}

(***************************************************************************)
(* updateUI on its own: the inputs of one call (the cache, the current     *)
(* language, the document and what its regions hold) are drawn from        *)
(* bounded sets, and the call is applied to them.                          *)
(***************************************************************************)
\* init has returned, on a page without slider, gallery and countdown
SetUp ==
    /\ NoSlider
    /\ NoGallery
    /\ NoCountdown
    /\ currentSlide = 0
    /\ sliderTimer = TRUE
    /\ sStart = 0
    /\ sOps = << >>
    /\ itemStyle = [i \in Items |-> OrigStyle]
    /\ timers = << >>
    /\ lastFilter = "none"
    /\ overlapped = FALSE
    /\ countdownOn = TRUE
    /\ cdText = [id \in CdIds |-> "orig"]

\* what a region may hold before the call: the static page, or an earlier sync
PriorElements ==
    { OrigElement,
      [kind |-> "text", body |-> "x", placeholder |-> "y"],
      [kind |-> "markup", body |-> "y", placeholder |-> "x"] }

SyncLangs == {"ar", "fr"}

InitSync ==
    /\ currentLang \in SyncLangs
    /\ translations \in {NoTranslations}
                        \cup {Put(NoTranslations, l, r) : l \in SyncLangs, r \in Resources}
    /\ pending = << >>
    /\ listeners = TRUE
    /\ exists \in SUBSET Selectors
    /\ regions \in [Selectors -> PriorElements]
    /\ activeOpt = {currentLang}
    /\ langText = LangLabel(currentLang, "orig")
    /\ dir = DirOf(currentLang)
    /\ ltrClass = (DirOf(currentLang) = "ltr")
    /\ dropdownShow = FALSE
    /\ last = Event("start", currentLang, TRUE)
    /\ langOptions = Langs
    /\ SetUp

\* a call of updateUI() (lines 232-352)
SyncRegions ==
    /\ regions' = UpdateUI(regions, exists, translations, currentLang)
    /\ last' = Event("updateUI", currentLang, IsLoaded(translations, currentLang))
    /\ UNCHANGED << currentLang, translations, pending, listeners, exists, chrome, widgets >>

NextSync == SyncRegions

SpecSync == InitSync /\ [][NextSync]_vars

(***************************************************************************)
(* Properties                                                              *)
(***************************************************************************)
Loaded == DOMAIN translations

\* the step issues a fetch for lang
FetchIssued(lang) ==
    /\ Len(pending') = Len(pending) + 1
    /\ pending'[Len(pending')].lang = lang
    /\ pending'[Len(pending')].stage = "fetch"

\* C1: changeLanguage(code) with code the current language is a no-op: no
\* fetch is issued, and the current language, the cache, the regions, the
\* active option, the direction and the menu stay as they are (so a repeated
\* changeLanguage(code) after a successful one changes nothing).
C1_SameLanguageNoOp ==
    [][ (last'.op = "click" /\ last'.lang = currentLang)
            => UNCHANGED << currentLang, translations, pending, regions, exists,
                            activeOpt, langText, dir, ltrClass, dropdownShow >> ]_vars

\* a click on the option of the current language, loaded by an earlier switch,
\* with the menu open: the menu is still open after it
C1_Witness ==
    /\ last.op = "click"
    /\ last.lang = currentLang
    /\ currentLang = "fr"
    /\ currentLang \in Loaded
    /\ dropdownShow

\* C2: when the fetch of changeLanguage(code) for a code that is not cached
\* fails, the current language after the call is the one before the call.
\* (The antecedent picks the failure of the only suspended call, issued by
\* the step before: the language before the step is the one before the call.)
C2_FailedLoadKeepsLanguage ==
    [][ ( /\ Len(pending) = 1
          /\ pending[1].kind = "change"
          /\ last.op = "click"
          /\ last.lang = pending[1].lang
          /\ last.lang # currentLang
          /\ last'.op = "changeDone"
          /\ ~last'.ok )
            => currentLang' = currentLang ]_vars

\* C3: after initialization, whenever no fetch is outstanding, the current
\* language is a loaded language.
C3_CurrentIsLoaded ==
    (listeners /\ pending = << >>) => currentLang \in Loaded

\* C4: no fetch is issued for a code whose resource is in the cache at the
\* moment the fetch is issued.
C4_NoFetchOfCached ==
    [][ \A l \in Langs : FetchIssued(l) => l \notin Loaded ]_vars

\* a fetch has just been issued for a code that is not cached, while
\* another code is cached
C4_Witness ==
    /\ last.op = "click"
    /\ pending # << >>
    /\ pending[Len(pending)].lang = last.lang
    /\ pending[Len(pending)].stage = "fetch"
    /\ last.lang \notin Loaded
    /\ Loaded # {}

\* the step completes a changeLanguage(lang) call that passed the test
\* against the current language: after a load, or at once from the cache
ChangeCompleted(lang) ==
    \/ last'.op = "changeDone" /\ last'.lang = lang
    \/ last'.op = "click" /\ last'.lang = lang /\ lang # currentLang /\ lang \in Loaded

\* C5: when a changeLanguage(code) call for a code other than the current
\* one completes, the direction is right-to-left for 'ar' and left-to-right
\* for 'fr' and 'en'.
C5_DirectionFollowsCode ==
    [][ /\ ChangeCompleted("ar") => dir' = "rtl"
        /\ ChangeCompleted("fr") => dir' = "ltr"
        /\ ChangeCompleted("en") => dir' = "ltr" ]_vars

\* a switch to 'fr' has completed after a load and the page is left-to-right
C5_Witness ==
    /\ last.op = "changeDone"
    /\ last.lang = "fr"
    /\ dir = "ltr"

\* the region of binding i shows value v, written through the binding's mode
Shows(i, v) ==
    LET el == regions[Bindings[i].sel] IN
    IF Bindings[i].type = "html" THEN el.kind = "markup" /\ el.body = v
    ELSE IF Bindings[i].type = "placeholder" THEN el.placeholder = v
    ELSE el.kind = "text" /\ el.body = v

\* C6: after updateUI with a cached current resource, every binding whose
\* element exists and whose key has a non-empty value holds that value,
\* written through the binding's update mode.
C6_SyncWritesValues ==
    (last.op = "updateUI" /\ currentLang \in Loaded) =>
        \A i \in 1..Len(Bindings) :
            LET v == translations[currentLang][Bindings[i].key] IN
            (Bindings[i].sel \in exists /\ v # Missing /\ v # "") => Shows(i, v)

\* updateUI has run with a resource that holds a value for every key, on a
\* document that holds every element
C6_Witness ==
    /\ last.op = "updateUI"
    /\ currentLang \in Loaded
    /\ exists = Selectors
    /\ \A i \in 1..Len(Bindings) :
          /\ translations[currentLang][Bindings[i].key] \in {"x", "y"}
          /\ Shows(i, translations[currentLang][Bindings[i].key])

\* C7: updateUI never blanks a region: a binding whose key is absent from
\* the current resource, or maps to an empty value, keeps its content.
C7_SyncNeverBlanks ==
    [][ (last'.op = "updateUI" /\ currentLang \in Loaded) =>
            \A i \in 1..Len(Bindings) :
                LET v == translations[currentLang][Bindings[i].key] IN
                (v = Missing \/ v = "") => regions'[Bindings[i].sel] = regions[Bindings[i].sel] ]_vars

\* updateUI has run with a resource without any usable value, on regions
\* that an earlier sync had filled: they still hold what they held
C7_Witness ==
    /\ last.op = "updateUI"
    /\ currentLang \in Loaded
    /\ exists = Selectors
    /\ translations[currentLang]["home"] = Missing
    /\ translations[currentLang]["hero_title"] = ""
    /\ translations[currentLang]["cta_placeholder"] = Missing
    /\ \A s \in Selectors : regions[s] = [kind |-> "text", body |-> "x", placeholder |-> "y"]

\* C8: updateUI is idempotent: applied again with the same current
\* resource, it yields the region state it yielded the first time.
C8_SyncIdempotent ==
    (last.op = "updateUI") =>
        UpdateUI(regions, exists, translations, currentLang) = regions

\* updateUI has run and has written a value into an existing region
C8_Witness ==
    /\ last.op = "updateUI"
    /\ currentLang \in Loaded
    /\ "[data-key=home]" \in exists
    /\ translations[currentLang]["home"] = "y"
    /\ regions["[data-key=home]"] = [kind |-> "text", body |-> "y", placeholder |-> "orig"]

\* C9: updateUI with no cached resource for the current language touches
\* no region.
C9_SyncWithoutResource ==
    [][ (last'.op = "updateUI" /\ currentLang \notin Loaded) => regions' = regions ]_vars

\* updateUI has run while the current language was not loaded and another
\* language was, with a value for a region that still holds the static page
C9_Witness ==
    /\ last.op = "updateUI"
    /\ currentLang \notin Loaded
    /\ \E l \in Loaded : translations[l]["home"] = "x"
    /\ "[data-key=home]" \in exists
    /\ regions["[data-key=home]"] = OrigElement

\* C10: the cache only grows: an entry for a code appears only when the
\* parse of a success response to a fetch for that code completes, and a
\* loaded code stays loaded.
C10_CacheMovesForward ==
    [][ \A l \in Langs :
          /\ l \in Loaded => l \in DOMAIN translations'
          /\ (l \notin Loaded /\ l \in DOMAIN translations') =>
                \E i \in 1..Len(pending) :
                    /\ pending[i].lang = l
                    /\ pending[i].stage = "json"
                    /\ pending[i].status = "ok"
                    /\ pending' = Remove(pending, i) ]_vars

\* a repeated fetch for a code that an overlapping call had loaded has
\* failed, and the code is still loaded
C10_Witness ==
    /\ last.op = "changeDone"
    /\ ~last.ok
    /\ last.lang \in Loaded

(***************************************************************************)
(* Two overlapping switches: init has loaded 'ar', and two changeLanguage  *)
(* calls for the two other codes, issued one after the other, are both     *)
(* suspended on their fetch.  From there the loads settle in any order.    *)
(***************************************************************************)
InitRace ==
    /\ currentLang = DefaultLang
    /\ \E r \in FileChoices(DefaultLang) : translations = Put(NoTranslations, DefaultLang, r)
    /\ \E a \in Langs \ {DefaultLang}, b \in Langs \ {DefaultLang} :
          /\ a # b
          /\ pending = << Call("change", a), Call("change", b) >>
          /\ last = Event("click", b, TRUE)
    /\ listeners = TRUE
    /\ exists \in {Selectors, Selectors \ {"[data-key=hero_title]"}}
    /\ regions = UpdateUI([s \in Selectors |-> OrigElement], exists, translations, currentLang)
    /\ \/ activeOpt = {"ar"} /\ dir = "rtl" /\ langText = "al-arabiya"
       \/ activeOpt = {} /\ dir = "none" /\ langText = "orig"
    /\ ltrClass = FALSE
    /\ dropdownShow \in BOOLEAN
    /\ langOptions = Langs
    /\ SetUp

NextRace ==
    \/ \E i \in 1..Len(pending), outcome \in {"ok", "http", "network"} : FetchSettle(i, outcome)
    \/ \E i \in 1..Len(pending), body \in Bodies : JsonSettle(i, body)

SpecRace == InitRace /\ [][NextRace]_vars

\* the regions are synchronized with the resource of lang
RegionsShow(lang) ==
    \A i \in 1..Len(Bindings) :
        LET v == translations[lang][Bindings[i].key] IN
        (Bindings[i].sel \in exists /\ v # Missing /\ v # "") => Shows(i, v)

\* the page is the one a completed switch to lang leaves
PageOf(lang) ==
    /\ currentLang = lang
    /\ RegionsShow(lang)
    /\ activeOpt = {lang}
    /\ dir = IF lang = "ar" THEN "rtl" ELSE "ltr"

\* the step completes the last of the two calls, and both loads have succeeded
BothResolved ==
    /\ Len(pending) = 1
    /\ pending' = << >>
    /\ last'.op = "changeDone"
    /\ last'.ok
    /\ (Langs \ {DefaultLang}) \subseteq DOMAIN translations'

\* at the last completion: the call whose fetch was the last to resolve.  It is
\* the completing call when its response came after the other call had completed
\* (last.op = "response") or while the other call was parsing (nth > 0), else the other.
FetchedLast ==
    IF last.op = "response" \/ pending[1].nth > 0 THEN pending[1].lang ELSE last.lang

\* C14 as stated: after two overlapping switches to codes that were not
\* cached have both succeeded, the current language, the regions, the active
\* option and the direction are those of the call whose fetch resolved last.
C14_FetchResolvedLastWins ==
    [][ BothResolved => \A l \in Langs : l = FetchedLast => PageOf(l)' ]_vars

\* C14, amended: after two overlapping switches to codes that were not cached
\* have both succeeded, the current language, the regions, the active option
\* and the direction are those of the call whose load (the fetch and the
\* parse of the response body) completed last, whatever the order in which
\* the switches were issued.
C14_CompletedLastWins ==
    [][ BothResolved => \A l \in Langs : l = pending[1].lang => PageOf(l)' ]_vars

\* both loads have succeeded, the switch to 'fr' being the last to complete
C14_Witness ==
    /\ pending = << >>
    /\ last.op = "changeDone"
    /\ last.ok
    /\ {"fr", "en"} \subseteq Loaded
    /\ last.lang = "fr"
    /\ PageOf("fr")
    /\ translations["fr"]["home"] = "y"

ChromeAgrees ==
    /\ activeOpt = {currentLang}
    /\ dir = "rtl" <=> currentLang = "ar"
    /\ dir = "ltr" <=> currentLang # "ar"

\* C19: once a changeLanguage to another code has completed, the chrome
\* agrees with the current language (one active option, that of the current
\* language; right-to-left exactly for 'ar'), whatever switches overlap,
\* succeed or fail: every completion establishes it and every step keeps it.
C19_ChromeAgrees ==
    [][ /\ (\E l \in Langs : ChangeCompleted(l)) => ChromeAgrees'
        /\ ChromeAgrees => ChromeAgrees' ]_vars

\* a switch has failed after another one had succeeded, no call is
\* suspended, and the chrome shows the code that failed to load
C19_Witness ==
    /\ last.op = "changeDone"
    /\ ~last.ok
    /\ pending = << >>
    /\ currentLang = "en"
    /\ Loaded = {"ar", "fr"}
    /\ ChromeAgrees
(***************************************************************************)
(* The slide viewer                                                        *)
(***************************************************************************)
\* the slider events recorded are n times the event op
AllOps(op, n) == Len(sOps) = n /\ \A i \in 1..n : sOps[i] = op

\* C11: with no timer tick in between, slideCount next-advances in a row
\* bring the viewer back to the slide they started from, and so does one
\* next followed by one previous.
C11_AdvancesReturnToStart ==
    /\ (slideCount >= 1 /\ AllOps("next", slideCount)) => currentSlide = sStart
    /\ (slideCount >= 1 /\ sOps = << "next", "prev" >>) => currentSlide = sStart

\* three slides, three next clicks from the middle slide
C11_Witness ==
    /\ slideCount = 3
    /\ AllOps("next", 3)
    /\ sStart = 1
    /\ currentSlide = 1

\* C12: on a page with slides, after any interleaving of next clicks,
\* previous clicks and timer ticks the current index is in [0, slideCount)
\* and exactly one slide is active, the one at the current index.
C12_OneActiveSlide ==
    (slideCount >= 1 /\ sOps # << >>) =>
        /\ currentSlide \in 0..(slideCount - 1)
        /\ activeSlides = {currentSlide}

\* a next click, a tick and a previous click on a page whose markup had
\* marked two slides active
C12_Witness ==
    /\ slideCount = 3
    /\ sOps = << "next", "tick", "prev" >>
    /\ sStart = 2
    /\ currentSlide = 0
    /\ activeSlides = {0}

\* C17: the interval, once started, is never cancelled (a next or previous
\* click leaves it running), and a tick right after a next click leaves the
\* viewer two slides, modulo slideCount, past the slide shown before the click.
C17_ManualKeepsTimer ==
    [][ /\ sliderTimer => sliderTimer'
        /\ (slideCount >= 1 /\ sOps' = << "next", "tick" >>) =>
               currentSlide' = (sStart' + 2) % slideCount ]_vars

\* a next click from the last of three slides and then a tick: the viewer
\* is on the second slide and the interval is still running
C17_Witness ==
    /\ slideCount = 3
    /\ sliderTimer
    /\ sOps = << "next", "tick" >>
    /\ last.op = "tick"
    /\ sStart = 2
    /\ currentSlide = 1
(***************************************************************************)
(* The gallery filter                                                      *)
(***************************************************************************)
\* the item is laid out (its display is not 'none')
Displayed(item) == itemStyle[item].display # "none"

\* the items displayed are those that the latest filterGallery call selects
ShowsLatestFilter ==
    \A item \in galleryItems :
        Displayed(item) <=> (lastFilter = "all" \/ ItemCategory(item) = lastFilter)

\* C13: after a filterGallery call made while no filter timeout was pending,
\* and once its timeouts have run, an item is displayed if and only if the
\* category is 'all' or equals the item's data-category.
C13_FilterSelects ==
    (lastFilter # "none" /\ ~overlapped /\ timers = << >>) => ShowsLatestFilter

\* filter 'all' on a quiet gallery after an earlier filter had hidden an item:
\* both items are displayed again
C13_Witness ==
    /\ lastFilter = "all"
    /\ ~overlapped
    /\ timers = << >>
    /\ last.op = "timeout"
    /\ \A item \in Items : itemStyle[item].display = "block" /\ itemStyle[item].opacity = "1"

\* C15: whatever the time between the filterGallery calls, once every timeout
\* has run the items displayed are those matching the category of the latest call.
C15_LatestFilterWins ==
    (lastFilter # "none" /\ timers = << >>) => ShowsLatestFilter
(***************************************************************************)
(* The countdown                                                           *)
(***************************************************************************)
\* C16 as stated: what the countdown shows is the same at every tick (so it
\* never decreases from one tick to the next).
C16_SameAtEveryTick == [][ countdownOn => cdText' = cdText ]_vars

\* C16: at every tick the launch date is computed anew from that tick's
\* clock, so the countdown never reaches zero: the days shown are always
\* "29" or "30", however long the page has been open.
C16_NeverReachesZero ==
    (countdownOn /\ "days" \in cdExists) => cdText["days"] \in {"29", "30"}

\* a tick whose two clock reads fall in different milliseconds
C16_Witness ==
    /\ last.op = "countdown"
    /\ cdExists = CdIds
    /\ cdText = [days |-> "29", hours |-> "23", minutes |-> "59", seconds |-> "59"]

(***************************************************************************)
(* The order of init()                                                     *)
(***************************************************************************)
\* the loadLanguage call of init has not returned
InitOutstanding == \E i \in 1..Len(pending) : pending[i].kind = "init"

\* C20: as long as the initial load of 'ar' has not settled there is no
\* listener, no slider interval and no countdown, no region and no countdown
\* field has been written and no click or tick has been handled; once it has
\* settled, with or without a resource, all of them are set up.
C20_SetUpAfterInitialLoad ==
    /\ InitOutstanding =>
          /\ ~listeners /\ ~sliderTimer /\ ~countdownOn
          /\ regions = [s \in Selectors |-> OrigElement]
          /\ cdText = [id \in CdIds |-> "orig"]
          /\ last.op \in {"start", "response"}
    /\ ~InitOutstanding => listeners /\ sliderTimer /\ countdownOn

\* the initial load has failed, and the page is set up all the same
C20_Witness ==
    /\ last.op = "initDone"
    /\ ~last.ok
    /\ "ar" \notin Loaded
    /\ listeners /\ sliderTimer /\ countdownOn
    /\ cdExists = CdIds
    /\ cdText["days"] = "30"
====
